---- MODULE Spec2Model ----
(***************************************************************************)
(* Model of OpenShopProblem (src/openshop.py): the Taillard instance       *)
(* parser _read_instance, the constructor, evaluate_solution and           *)
(* random_solution.                                                        *)
(*                                                                         *)
(* A file is a sequence of raw lines.  A raw line is a sequence of lexical *)
(* items: the whitespace item WS or a token (a string without blanks).     *)
(* Python lists are 0-indexed; At(s, i) reads the i-th element of a list.  *)
(***************************************************************************)
EXTENDS Integers, Sequences, FiniteSets, TLC

VARIABLES file, pc, inst, err, sol, arg, ret

vars == <<file, pc, inst, err, sol, arg, ret>>

---------------------------------------------------------------------------
(* Bounds of the model.                                                    *)

\* SpecParse: the generated files declare nb_jobs + nb_machines <= MaxSize.
MaxSize == 4
\* Spec: the queries run on instances of nb_jobs + nb_machines <= ApiMaxSize.
ApiMaxSize == 4

---------------------------------------------------------------------------
(* Python values and helpers.                                              *)

WS == " "

At(s, i) == s[i + 1]

\* range(n): the list 0, 1, ..., n-1; empty when n <= 0.
Range(n) == [i \in 1..n |-> i - 1]

Numerals == <<"0", "1", "2", "3", "4", "5", "6", "7", "8", "9">>

\* The decimal numeral of n in -1..9 (used to write the files).
Str(n) == IF n < 0 THEN "-1" ELSE Numerals[n + 1]

\* int(x) succeeds on a numeral and raises ValueError on anything else.
IsInt(x) == x = "-1" \/ \E i \in 1..Len(Numerals) : Numerals[i] = x

IntOf(x) == IF x = "-1" THEN -1 ELSE (CHOOSE i \in 1..Len(Numerals) : Numerals[i] = x) - 1

\* line.strip(): drop the leading and the trailing whitespace.
RECURSIVE LStrip(_)
LStrip(line) ==
    IF line # <<>> /\ Head(line) = WS THEN LStrip(Tail(line)) ELSE line

RECURSIVE RStrip(_)
RStrip(line) ==
    IF line # <<>> /\ line[Len(line)] = WS
    THEN RStrip(SubSeq(line, 1, Len(line) - 1))
    ELSE line

Strip(line) == RStrip(LStrip(line))

\* line.split(): the tokens of the line.
Split(line) == SelectSeq(line, LAMBDA x : x # WS)

\* Variant: the filter tests the raw line, so a whitespace-only line stays.
RECURSIVE NonBlankLines_RawTest(_)
NonBlankLines_RawTest(raw) ==
    IF raw = <<>> THEN <<>>
    ELSE IF Head(raw) # <<>>
         THEN <<Strip(Head(raw))>> \o NonBlankLines_RawTest(Tail(raw))
         ELSE NonBlankLines_RawTest(Tail(raw))

\* [line.strip() for line in lines if line.strip()]
RECURSIVE NonBlankLines(_)
NonBlankLines(raw) ==
    IF raw = <<>> THEN <<>>
    ELSE IF Strip(Head(raw)) # <<>>
         THEN <<Strip(Head(raw))>> \o NonBlankLines(Tail(raw))
         ELSE NonBlankLines(Tail(raw))

RECURSIVE SumSeq(_)
SumSeq(s) == IF s = <<>> THEN 0 ELSE Head(s) + SumSeq(Tail(s))

\* list.index(m): the first position holding m, or -1 for ValueError.
Index(list, m) ==
    IF \E p \in 1..Len(list) : list[p] = m
    THEN (CHOOSE p \in 1..Len(list) :
              list[p] = m /\ \A q \in 1..(p - 1) : list[q] # m) - 1
    ELSE -1

---------------------------------------------------------------------------
(* _read_instance.                                                         *)

Failure(e) == [ok |-> FALSE, error |-> e]

\* Variant: the machine identifiers are not converted to 0-indexed.
ReadIntLine_NoShift(lines, i, shift) ==
    IF i >= Len(lines) THEN Failure("IndexError")
    ELSE LET toks == Split(At(lines, i))
         IN IF \E k \in 1..Len(toks) : ~IsInt(toks[k])
            THEN Failure("ValueError")
            ELSE [ok |-> TRUE, ints |-> [k \in 1..Len(toks) |-> IntOf(toks[k])]]

\* [int(x) for x in lines[i].split()], or the exception it raises.
ReadIntLine(lines, i, shift) ==
    IF i >= Len(lines) THEN Failure("IndexError")
    ELSE LET toks == Split(At(lines, i))
         IN IF \E k \in 1..Len(toks) : ~IsInt(toks[k])
            THEN Failure("ValueError")
            ELSE [ok |-> TRUE,
                  ints |-> [k \in 1..Len(toks) |-> IntOf(toks[k]) - shift]]

\* The rows read by one of the two loops: lines first .. first + count - 1.
ReadBlock(lines, first, count, shift) ==
    LET rows == [j \in 1..count |-> ReadIntLine(lines, first + j - 1, shift)]
    IN IF \E j \in 1..count : ~rows[j].ok
       THEN Failure(rows[CHOOSE j \in 1..count :
                             ~rows[j].ok /\ \A k \in 1..(j - 1) : rows[k].ok].error)
       ELSE [ok |-> TRUE, rows |-> [j \in 1..count |-> rows[j].ints]]

\* Variant: the time is taken at position m, without the lookup.
Lookup_TaskOrder(indices, times, m) == At(times, m)

\* pos = machine_index[j].index(m); processing_times_task_order[j][pos]
Lookup(indices, times, m) == At(times, Index(indices, m))

\* The exception that lookup raises, if any.
LookupError(indices, times, m) ==
    IF Index(indices, m) < 0 THEN "ValueError"
    ELSE IF Index(indices, m) >= Len(times) THEN "IndexError"
    ELSE "none"

\* The reordering loops over j and m.
Reorder(nb_jobs, nb_machines, task_order, machine_index) ==
    LET bad(j, m) == LookupError(machine_index[j], task_order[j], m - 1) # "none"
        before(j, m, k, n) == k < j \/ (k = j /\ n < m)
    IN IF \E j \in 1..nb_jobs, m \in 1..nb_machines : bad(j, m)
       THEN LET f == CHOOSE jm \in (1..nb_jobs) \X (1..nb_machines) :
                         /\ bad(jm[1], jm[2])
                         /\ \A k \in 1..nb_jobs, n \in 1..nb_machines :
                                before(jm[1], jm[2], k, n) => ~bad(k, n)
            IN Failure(LookupError(machine_index[f[1]], task_order[f[1]], f[2] - 1))
       ELSE [ok |-> TRUE,
             processing_times |->
                 [j \in 1..nb_jobs |->
                     [m \in 1..nb_machines |->
                         Lookup(machine_index[j], task_order[j], m - 1)]]]

SizeLineIndex == 1
FirstTimesLine == 3
FirstMachinesLine == 4

\* Variant: the bound sums the first job only.
MaxStart_FirstJob(processing_times) ==
    IF processing_times = <<>> THEN 0 ELSE SumSeq(processing_times[1])

\* sum(sum(job) for job in processing_times)
MaxStart(processing_times) ==
    SumSeq([j \in 1..Len(processing_times) |-> SumSeq(processing_times[j])])

ReadLines(lines) ==
    IF SizeLineIndex >= Len(lines) THEN Failure("IndexError")
    ELSE
    LET tokens == Split(At(lines, SizeLineIndex))
    IN IF Len(tokens) < 1 THEN Failure("IndexError")
       ELSE IF ~IsInt(tokens[1]) THEN Failure("ValueError")
       ELSE IF Len(tokens) < 2 THEN Failure("IndexError")
       ELSE IF ~IsInt(tokens[2]) THEN Failure("ValueError")
       ELSE
       LET nb_jobs == IntOf(tokens[1])
           nb_machines == IntOf(tokens[2])
           times == ReadBlock(lines, FirstTimesLine, nb_jobs, 0)
           machines == ReadBlock(lines, FirstMachinesLine + nb_jobs, nb_jobs, 1)
       IN IF ~times.ok THEN times
          ELSE IF ~machines.ok THEN machines
          ELSE
          LET r == Reorder(nb_jobs, nb_machines, times.rows, machines.rows)
          IN IF ~r.ok THEN r
             ELSE [ok |-> TRUE,
                   nb_jobs |-> nb_jobs,
                   nb_machines |-> nb_machines,
                   processing_times |-> r.processing_times,
                   max_start |-> MaxStart(r.processing_times)]

_read_instance(raw) == ReadLines(NonBlankLines(raw))

---------------------------------------------------------------------------
(* evaluate_solution and random_solution.  A method is modelled as a       *)
(* function of the object and the arguments that gives the object after    *)
(* the call (self) and the outcome of the call (out).                      *)

Penalty == 1000000000

None == [type |-> "NoneType", keys |-> {},
         jobs_order |-> <<>>, machines_order |-> <<>>, objective |-> 0]

\* A dict holding the given keys; the other fields are not present.
Dict(keys, jobs_order, machines_order, objective) ==
    [type |-> "dict", keys |-> keys,
     jobs_order |-> IF "jobs_order" \in keys THEN jobs_order ELSE <<>>,
     machines_order |-> IF "machines_order" \in keys THEN machines_order ELSE <<>>,
     objective |-> IF "objective" \in keys THEN objective ELSE 0]

List == [type |-> "list", keys |-> {},
         jobs_order |-> <<>>, machines_order |-> <<>>, objective |-> 0]

Return(v) == [kind |-> "return", value |-> v]
Raise(e) == [kind |-> "raise", value |-> e]

\* key in solution: raises TypeError on None, is False on the list.
Contains(solution, key) ==
    IF solution.type = "NoneType" THEN Raise("TypeError")
    ELSE Return(key \in solution.keys)

\* Variant: solution.get("objective") or default.
Get_OrDefault(solution, default) ==
    IF solution.type # "dict" THEN Raise("AttributeError")
    ELSE Return(IF "objective" \in solution.keys /\ solution.objective # 0
                THEN solution.objective ELSE default)

\* solution.get("objective", default): only a dict has get.
Get(solution, default) ==
    IF solution.type # "dict" THEN Raise("AttributeError")
    ELSE Return(IF "objective" \in solution.keys THEN solution.objective ELSE default)

\* The guard of line 95, evaluated left to right with short-circuit or.
BadFormat(solution) ==
    IF solution.type # "dict" THEN Return(TRUE)
    ELSE LET a == Contains(solution, "jobs_order")
         IN IF a.kind = "raise" THEN a
            ELSE IF ~a.value THEN Return(TRUE)
            ELSE LET b == Contains(solution, "machines_order")
                 IN IF b.kind = "raise" THEN b ELSE Return(~b.value)

evaluate_solution(self, solution) ==
    LET g == BadFormat(solution)
    IN [self |-> self,
        out |-> IF g.kind = "raise" THEN g
                ELSE IF g.value THEN Return(Penalty)
                ELSE Get(solution, Penalty)]

\* random.shuffle(x): for i = len(x)-1 down to 1, swap x[i] with x[rnd[i]],
\* where rnd[i] is drawn from 0..i.
RndChoices(n) == {r \in [1..(n - 1) -> 0..(n - 1)] : \A i \in 1..(n - 1) : r[i] <= i}

Swap(x, i, j) == [x EXCEPT ![i + 1] = x[j + 1], ![j + 1] = x[i + 1]]

RECURSIVE ShuffleFrom(_, _, _)
ShuffleFrom(x, rnd, i) ==
    IF i < 1 THEN x ELSE ShuffleFrom(Swap(x, i, rnd[i]), rnd, i - 1)

Shuffle(x, rnd) == ShuffleFrom(x, rnd, Len(x) - 1)

\* The lists the two loops shuffle.
JobsList(self) == Range(self.nb_jobs)
MachinesList(self) == Range(self.nb_machines)

\* Variant: the rows of the matrix are shuffled in place with the orders.
random_solution_InPlace(self, rndJobs, rndMachines) ==
    [self |-> [self EXCEPT !.processing_times =
                   [j \in 1..Len(self.processing_times) |->
                       Shuffle(self.processing_times[j], rndMachines[j])]],
     out |-> Return(Dict({"jobs_order", "machines_order"},
                 [m \in 1..self.nb_machines |-> Shuffle(Range(self.nb_jobs), rndJobs[m])],
                 [j \in 1..self.nb_jobs |-> Shuffle(Range(self.nb_machines), rndMachines[j])],
                 0))]

random_solution(self, rndJobs, rndMachines) ==
    [self |-> self,
     out |-> Return(Dict({"jobs_order", "machines_order"},
                 [m \in 1..self.nb_machines |-> Shuffle(JobsList(self), rndJobs[m])],
                 [j \in 1..self.nb_jobs |-> Shuffle(MachinesList(self), rndMachines[j])],
                 0))]

---------------------------------------------------------------------------
(* The instance files the model reads.                                     *)

\* Durations in task order of the generated files: job j, position p.
DurTable == <<<<3, 5, 1, 6>>, <<4, 2, 7, 1>>, <<2, 6, 3, 8>>, <<5, 1, 4, 2>>>>
Dur(j, p) == DurTable[((j - 1) % Len(DurTable)) + 1][((p - 1) % Len(DurTable)) + 1]

\* The raw line holding the tokens, separated by single blanks.
RECURSIVE Join(_)
Join(toks) ==
    IF Len(toks) <= 1 THEN toks ELSE <<Head(toks), WS>> \o Join(Tail(toks))

HeaderLine == <<"jobs", WS, "machines">>
TimesTitle == <<"times">>
MachinesTitle == <<"machines">>

\* The file in the layout of the docstring: the header, the size line, the
\* times of rows jobs, and their machines (1-indexed).
LayoutFile(nb_jobs, nb_machines, rows, cols, machines) ==
    <<HeaderLine, Join(<<Str(nb_jobs), Str(nb_machines)>>), TimesTitle>>
    \o [j \in 1..rows |-> Join([p \in 1..cols |-> Str(Dur(j, p))])]
    \o <<MachinesTitle>>
    \o [j \in 1..rows |-> Join([p \in 1..cols |-> Str(machines[j][p])])]

Sizes(lowJobs, lowMachines, max) ==
    {s \in (lowJobs..max) \X (lowMachines..max) : s[1] + s[2] <= max}

BaseFiles ==
    UNION {{LayoutFile(s[1], s[2], s[1], s[2], mach) :
               mach \in [1..s[1] -> Permutations(1..s[2])]} :
              s \in Sizes(0, 1, MaxSize)}

\* One edit of a file: the ways a file departs from the layout.
EditTokens == {Str(n) : n \in -1..(MaxSize - 1)} \cup {"x"}

SetLine(f, l, line) == [f EXCEPT ![l] = line]

RemoveAt(s, k) == SubSeq(s, 1, k - 1) \o SubSeq(s, k + 1, Len(s))

InsertAt(s, k, x) == SubSeq(s, 1, k) \o <<x>> \o SubSeq(s, k + 1, Len(s))

BlankLines == {<<>>, <<WS>>}

SetTokenEdits(f) ==
    UNION {{SetLine(f, l, Join([Split(f[l]) EXCEPT ![k] = v])) :
               k \in 1..Len(Split(f[l])), v \in EditTokens} : l \in 2..Len(f)}

AppendTokenEdits(f) ==
    {SetLine(f, l, f[l] \o <<WS, v>>) : l \in 2..Len(f), v \in EditTokens}

DropTokenEdits(f) ==
    {SetLine(f, l, Join(SubSeq(Split(f[l]), 1, Len(Split(f[l])) - 1))) : l \in 2..Len(f)}

PadEdits(f) == {SetLine(f, l, <<WS>> \o f[l] \o <<WS>>) : l \in 1..Len(f)}

DeleteLineEdits(f) == {RemoveAt(f, l) : l \in 1..Len(f)}

TruncateEdits(f) == {SubSeq(f, 1, k) : k \in 0..(Len(f) - 1)}

InsertBlankEdits(f) == {InsertAt(f, k, b) : k \in 0..Len(f), b \in BlankLines}

Edits(f) ==
    {f} \cup SetTokenEdits(f) \cup AppendTokenEdits(f) \cup DropTokenEdits(f)
        \cup PadEdits(f) \cup DeleteLineEdits(f) \cup TruncateEdits(f)
        \cup InsertBlankEdits(f)

ParseFiles == UNION {Edits(f) : f \in BaseFiles}

\* The files of the instances the queries run on: every declared size from
\* -1 up, machine line j of the file being the rotation by j of 1..cols.
Rotation(j, cols) == [p \in 1..cols |-> ((p + j - 1) % cols) + 1]

ApiFiles ==
    {LayoutFile(s[1], s[2], IF s[1] < 0 THEN 0 ELSE s[1], IF s[2] < 1 THEN 1 ELSE s[2],
                [j \in 1..s[1] |-> Rotation(j, IF s[2] < 1 THEN 1 ELSE s[2])]) :
        s \in Sizes(-1, -1, ApiMaxSize)}

\* The arguments evaluate_solution is called with.
ObjectiveValues == {0, 42}

Placeholder == <<<<0>>>>

Solutions ==
    {None, List}
    \cup {Dict(ks, Placeholder, Placeholder, 42) :
             ks \in SUBSET {"jobs_order", "machines_order", "objective"}}
    \cup {Dict({"jobs_order", "machines_order", "objective"}, Placeholder, Placeholder, v) :
             v \in ObjectiveValues}

---------------------------------------------------------------------------
(* The state machine.                                                      *)

NoInstance == [nb_jobs |-> 0, nb_machines |-> 0, processing_times |-> <<>>,
               max_start |-> 0, exists |-> FALSE]

Instance(r) == [nb_jobs |-> r.nb_jobs, nb_machines |-> r.nb_machines,
                processing_times |-> r.processing_times,
                max_start |-> r.max_start, exists |-> TRUE]

NoCall == [kind |-> "none", value |-> 0]

InitState ==
    /\ pc = "new"
    /\ inst = NoInstance
    /\ err = "none"
    /\ sol = None
    /\ arg = None
    /\ ret = NoCall

Init == file \in ApiFiles /\ InitState

InitParse == file \in ParseFiles /\ InitState

\* OpenShopProblem(instance_file): the attributes are assigned only when
\* _read_instance returns; an exception leaves no object.
Construct ==
    /\ pc = "new"
    /\ LET r == _read_instance(file)
       IN IF r.ok
          THEN /\ inst' = Instance(r)
               /\ pc' = "ready"
               /\ err' = err
          ELSE /\ inst' = inst
               /\ pc' = "failed"
               /\ err' = r.error
    /\ UNCHANGED <<file, sol, arg, ret>>

EvaluateSolution ==
    /\ pc = "ready"
    /\ \E s \in Solutions :
          LET r == evaluate_solution(inst, s)
          IN /\ inst' = r.self
             /\ arg' = s
             /\ ret' = r.out
    /\ UNCHANGED <<file, pc, err, sol>>

RandomSolution ==
    /\ pc = "ready"
    /\ \E rj \in [1..inst.nb_machines -> RndChoices(inst.nb_jobs)],
          rm \in [1..inst.nb_jobs -> RndChoices(inst.nb_machines)] :
          LET r == random_solution(inst, rj, rm)
          IN /\ inst' = r.self
             /\ sol' = r.out.value
    /\ UNCHANGED <<file, pc, err, arg, ret>>

Next == Construct \/ EvaluateSolution \/ RandomSolution

Spec == Init /\ [][Next]_vars

NextParse == Construct

SpecParse == InitParse /\ [][NextParse]_vars

---------------------------------------------------------------------------
(* What the properties say about a file, read off the file itself.         *)

\* The tokens of line i (0-indexed) once the blank lines are gone.
TokensOf(f, i) == Split(At(NonBlankLines(f), i))

LineCount(f) == Len(NonBlankLines(f))

AllInts(toks) == \A k \in 1..Len(toks) : IsInt(toks[k])

Ints(toks) == [k \in 1..Len(toks) |-> IntOf(toks[k])]

\* The size line is there and declares two integers.
SizeDeclared(f) ==
    /\ LineCount(f) >= 2
    /\ Len(TokensOf(f, 1)) >= 2
    /\ IsInt(TokensOf(f, 1)[1]) /\ IsInt(TokensOf(f, 1)[2])

DeclaredJobs(f) == IntOf(TokensOf(f, 1)[1])
DeclaredMachines(f) == IntOf(TokensOf(f, 1)[2])

\* The lines the layout gives to job j (0-indexed).
TimesLineOf(f, j) == 3 + j
MachinesLineOf(f, j) == 4 + DeclaredJobs(f) + j

Count(list, v) == Cardinality({k \in 1..Len(list) : list[k] = v})

\* The line is a permutation of 1..n.
IsPermutationLine(toks, n) ==
    /\ AllInts(toks)
    /\ Len(toks) = n
    /\ \A v \in 1..n : Count(Ints(toks), v) = 1

\* Every job's machine line is there and is a permutation of 1..nb_machines.
PermutationLines(f) ==
    /\ SizeDeclared(f)
    /\ \A j \in 0..(DeclaredJobs(f) - 1) :
          /\ MachinesLineOf(f, j) < LineCount(f)
          /\ IsPermutationLine(TokensOf(f, MachinesLineOf(f, j)), DeclaredMachines(f))

\* The file follows the layout: positive counts, 4 + 2 * nb_jobs lines,
\* nb_machines non-negative times per job, a permutation per job.
WellFormed(f) ==
    /\ SizeDeclared(f)
    /\ DeclaredJobs(f) > 0 /\ DeclaredMachines(f) > 0
    /\ LineCount(f) = 4 + 2 * DeclaredJobs(f)
    /\ \A j \in 0..(DeclaredJobs(f) - 1) :
          LET t == TokensOf(f, TimesLineOf(f, j))
          IN /\ AllInts(t)
             /\ Len(t) = DeclaredMachines(f)
             /\ \A k \in 1..Len(t) : IntOf(t[k]) >= 0
    /\ PermutationLines(f)

\* The sum of the entries of a matrix, entry by entry.
RECURSIVE EntrySum(_, _)
EntrySum(matrix, cells) ==
    IF cells = {} THEN 0
    ELSE LET c == CHOOSE x \in cells : TRUE
         IN matrix[c[1]][c[2]] + EntrySum(matrix, cells \ {c})

Cells(matrix) == UNION {{<<j, m>> : m \in 1..Len(matrix[j])} : j \in 1..Len(matrix)}

---------------------------------------------------------------------------
(* C1: when every job's machine line is a permutation of 1..nb_machines,   *)
(* the matrix returned holds at [j][m] the time at the position p of job   *)
(* j's task-order line where its machine line names machine m.             *)
C1_Reindexed ==
    (pc = "ready" /\ PermutationLines(file)) =>
        \A j \in 0..(inst.nb_jobs - 1), m \in 0..(inst.nb_machines - 1) :
            \E p \in 0..(inst.nb_machines - 1) :
                /\ At(Ints(TokensOf(file, MachinesLineOf(file, j))), p) - 1 = m
                /\ At(At(inst.processing_times, j), m)
                       = At(Ints(TokensOf(file, TimesLineOf(file, j))), p)

C1_Witness ==
    /\ pc = "ready" /\ PermutationLines(file)
    /\ inst.nb_jobs = 2 /\ inst.nb_machines = 2
    /\ Ints(TokensOf(file, MachinesLineOf(file, 0))) = <<2, 1>>
    /\ inst.processing_times[1] = <<5, 3>>

\* The file of the scenario: times [[3,5],[4,2]], machines [[2,1],[1,2]].
ScenarioFile ==
    <<HeaderLine, <<"2", WS, "2">>, TimesTitle, <<"3", WS, "5">>, <<"4", WS, "2">>,
      MachinesTitle, <<"2", WS, "1">>, <<"1", WS, "2">>>>

(* C2 as stated: the 2-job, 2-machine scenario parses to [[5,3],[2,4]]    *)
(* with max_start 14.                                                      *)
C2_Scenario ==
    (file = ScenarioFile /\ pc # "new") =>
        /\ pc = "ready"
        /\ inst.nb_jobs = 2 /\ inst.nb_machines = 2
        /\ inst.processing_times = <<<<5, 3>>, <<2, 4>>>>
        /\ inst.max_start = 14

(* C2, amended: the scenario parses to [[5,3],[4,2]] with max_start 14:    *)
(* job 1 runs machine 0 at position 0 (time 4), machine 1 at position 1.   *)
C2_ScenarioAmended ==
    (file = ScenarioFile /\ pc # "new") =>
        /\ pc = "ready"
        /\ inst.nb_jobs = 2 /\ inst.nb_machines = 2
        /\ inst.processing_times = <<<<5, 3>>, <<4, 2>>>>
        /\ inst.max_start = 14

C2_Witness == file = ScenarioFile /\ pc = "ready" /\ inst.max_start = 14

(* C3: a well-formed file gives nb_jobs rows of nb_machines non-negative   *)
(* integers and max_start equal to the sum of all the entries.             *)
C3_Shape ==
    (WellFormed(file) /\ pc # "new") =>
        /\ pc = "ready"
        /\ inst.nb_jobs = DeclaredJobs(file)
        /\ inst.nb_machines = DeclaredMachines(file)
        /\ Len(inst.processing_times) = inst.nb_jobs
        /\ \A j \in 1..Len(inst.processing_times) :
              /\ Len(inst.processing_times[j]) = inst.nb_machines
              /\ \A m \in 1..Len(inst.processing_times[j]) :
                    inst.processing_times[j][m] \in Nat
        /\ inst.max_start = EntrySum(inst.processing_times, Cells(inst.processing_times))

C3_Witness ==
    /\ WellFormed(file) /\ pc = "ready"
    /\ inst.nb_jobs = 2 /\ inst.nb_machines = 2 /\ inst.max_start > 0

\* Some job's machine line, converted to 0-indexed, misses a machine index
\* of [0, nb_machines) or holds it twice.
BadIndexing(f) ==
    /\ SizeDeclared(f)
    /\ \E j \in 0..(DeclaredJobs(f) - 1) :
          /\ MachinesLineOf(f, j) < LineCount(f)
          /\ AllInts(TokensOf(f, MachinesLineOf(f, j)))
          /\ \E m \in 0..(DeclaredMachines(f) - 1) :
                Count(Ints(TokensOf(f, MachinesLineOf(f, j))), m + 1) # 1

(* C4: construction fails whenever some job's machine line misses a        *)
(* machine index or holds one twice.                                       *)
C4_BadIndexingFails == (BadIndexing(file) /\ pc # "new") => pc = "failed"

IsPermutationOf(list, n) ==
    /\ Len(list) = n
    /\ \A v \in 0..(n - 1) : Count(list, v) = 1

(* C5: random_solution returns nb_machines permutations of [0, nb_jobs)    *)
(* and nb_jobs permutations of [0, nb_machines), and no objective.         *)
C5_Permutations ==
    (pc = "ready" /\ sol # None) =>
        /\ sol.type = "dict"
        /\ sol.keys = {"jobs_order", "machines_order"}
        /\ Len(sol.jobs_order) = inst.nb_machines
        /\ \A m \in 1..Len(sol.jobs_order) :
              IsPermutationOf(sol.jobs_order[m], inst.nb_jobs)
        /\ Len(sol.machines_order) = inst.nb_jobs
        /\ \A j \in 1..Len(sol.machines_order) :
              IsPermutationOf(sol.machines_order[j], inst.nb_machines)

\* The value the contract gives for a solution.
Expected(solution) ==
    IF solution.type = "dict"
       /\ {"jobs_order", "machines_order", "objective"} \subseteq solution.keys
    THEN solution.objective
    ELSE 1000000000

(* C6: evaluate_solution never raises; it returns the objective of a dict  *)
(* holding jobs_order, machines_order and objective, and 1_000_000_000     *)
(* for anything else.                                                      *)
C6_Evaluate ==
    ret.kind # "none" => (ret.kind = "return" /\ ret.value = Expected(arg))

C6_Witness ==
    /\ ret.kind = "return" /\ ret.value = 0
    /\ arg.type = "dict" /\ "objective" \in arg.keys

\* The file is shorter than the layout, or a line of it has too few tokens.
Short(f) ==
    \/ LineCount(f) < 2
    \/ Len(TokensOf(f, 1)) < 2
    \/ /\ SizeDeclared(f)
       /\ \/ LineCount(f) < 4 + 2 * DeclaredJobs(f)
          \/ \E j \in 0..(DeclaredJobs(f) - 1) :
                \/ Len(TokensOf(f, TimesLineOf(f, j))) < DeclaredMachines(f)
                \/ Len(TokensOf(f, MachinesLineOf(f, j))) < DeclaredMachines(f)

(* C7: a file with fewer lines than 4 + 2 * nb_jobs, or with too few       *)
(* tokens on the size line, a times line or a machine line, fails          *)
(* construction and leaves no instance.                                    *)
C7_ShortFails == (Short(file) /\ pc # "new") => (pc = "failed" /\ inst = NoInstance)

\* The outcome of construction: the tuple, or failure.
Outcome(r) == IF r.ok THEN <<"ready", Instance(r)>> ELSE <<"failed", NoInstance>>

(* C8: a blank line inserted at any position of the file, or a blank line  *)
(* taken out of it, leaves the outcome of the parse as it is.              *)
C8_BlankLines ==
    pc # "new" =>
        /\ \A k \in 0..Len(file), b \in BlankLines :
              Outcome(_read_instance(InsertAt(file, k, b))) = <<pc, inst>>
        /\ \A k \in 1..Len(file) :
              file[k] \in BlankLines =>
                  Outcome(_read_instance(RemoveAt(file, k))) = <<pc, inst>>

C8_Witness ==
    /\ pc = "ready" /\ inst.nb_jobs = 2
    /\ \E k \in 1..Len(file) : file[k] = <<WS>>

(* C9: every constructed instance has nb_jobs > 0 and nb_machines > 0.     *)
C9_PositiveCounts == pc = "ready" => (inst.nb_jobs > 0 /\ inst.nb_machines > 0)

(* C10: once constructed, the instance is the same after every call of     *)
(* evaluate_solution and random_solution.                                  *)
C10_Immutable == [][pc = "ready" => inst' = inst]_vars

C10_Witness ==
    /\ pc = "ready" /\ inst.nb_jobs = 2 /\ inst.nb_machines = 2
    /\ sol # None /\ sol.machines_order[1] = <<1, 0>>
    /\ ret.kind = "return"
====
